---- MODULE Spec2Model ----
(***************************************************************************)
(* Model of the darshan-util record codecs of the LUSTRE and STDIO modules *)
(* (darshan-lustre-logutils.c, darshan-stdio-logutils.c).                  *)
(*                                                                         *)
(* Memory and the module region of the log are byte sequences; an int64_t  *)
(* is the sequence of its 8 bytes in host (little-endian) order, so that   *)
(* DARSHAN_BSWAP64 is the reversal of those bytes.  A C "int" is a signed  *)
(* 32-bit value and wraps.                                                 *)
(***************************************************************************)
EXTENDS Integers, Sequences, FiniteSets, TLC

(***************************************************************************)
(* Bounds of the model.                                                    *)
(***************************************************************************)
\* most components of a record on the log
MaxComps == 2
\* get_record calls of one behaviour
MaxCalls == 1
\* heap blocks the allocator can hand out
NumAddrs == 2

(***************************************************************************)
(* Program constants.                                                      *)
(***************************************************************************)
\* sizeof(int64_t), sizeof(OST_ID), sizeof(a pointer)
WordBytes == 8
\* sizeof(struct darshan_base_record): id and rank
BaseRecSize == 16
\* current version of the LUSTRE record format
DARSHAN_LUSTRE_VER == 2
\* current version of the STDIO record format
DARSHAN_STDIO_VER == 2
\* indices of the per-component counters
LUSTRE_COMP_STRIPE_SIZE == 0
LUSTRE_COMP_STRIPE_COUNT == 1
LUSTRE_COMP_STRIPE_PATTERN == 2
LUSTRE_COMP_FLAGS == 3
LUSTRE_COMP_EXT_START == 4
LUSTRE_COMP_EXT_END == 5
LUSTRE_COMP_MIRROR_ID == 6
LUSTRE_COMP_NUM_INDICES == 7
\* length of a component's pool_name
LUSTRE_POOL_NAME_LEN == 16
\* number of integer and of floating point counters of a STDIO record
STDIO_NUM_INDICES == 14
STDIO_F_NUM_INDICES == 15
\* the size the callers of get_record give a buffer they supply
CallerBufSize == 4096
\* distance between the addresses of two heap blocks
HeapStride == 65536

NULL == 0
MaxInt32 == 2147483647
MinInt32 == (-2147483647) - 1

\* sizeof(struct darshan_lustre_component)
CompSize == LUSTRE_COMP_NUM_INDICES * WordBytes + LUSTRE_POOL_NAME_LEN
\* sizeof(struct darshan_lustre_record): base_rec, num_comps, comps, ost_ids
RecStructSize == BaseRecSize + WordBytes + WordBytes + WordBytes
\* fixed_size of darshan_log_get_lustre_record
FixedSize == BaseRecSize + WordBytes
\* offsets of the members of struct darshan_lustre_record
OffNumComps == BaseRecSize
OffCompsPtr == BaseRecSize + WordBytes
OffOstPtr == BaseRecSize + WordBytes + WordBytes
\* sizeof(fixed_record) of darshan_log_get_lustre_record_v1
V1FixedSize == 7 * WordBytes
\* sizeof(struct darshan_stdio_file)
StdioRecSize == BaseRecSize + (STDIO_NUM_INDICES + STDIO_F_NUM_INDICES) * WordBytes

(***************************************************************************)
(* Bytes, words and C integer arithmetic.                                  *)
(***************************************************************************)
Min(a, b) == IF a < b THEN a ELSE b
Max(a, b) == IF a < b THEN b ELSE a

\* DARSHAN_BSWAP64 on the 8 bytes of one value
Bswap64(w) == <<w[8], w[7], w[6], w[5], w[4], w[3], w[2], w[1]>>

RECURSIVE LEBytes(_, _)
LEBytes(n, k) == IF k = 0 THEN <<>> ELSE <<n % 256>> \o LEBytes(n \div 256, k - 1)

\* the 8 bytes of the int64_t n
LE64(n) ==
    IF n >= 0 THEN LEBytes(n, WordBytes)
    ELSE LET b == LEBytes((-n) - 1, WordBytes)
         IN  <<255 - b[1], 255 - b[2], 255 - b[3], 255 - b[4],
               255 - b[5], 255 - b[6], 255 - b[7], 255 - b[8]>>

\* (int) of an int64_t: its low 32 bits, signed
Low32(w) ==
    LET u == w[1] + 256 * w[2] + 65536 * w[3]
    IN  IF w[4] < 128 THEN u + 16777216 * w[4]
        ELSE (u + 16777216 * (w[4] - 128)) + MinInt32

IsNeg64(w) == w[8] >= 128
IsZero64(w) == \A k \in 1..WordBytes : w[k] = 0
FitsInt32(w) ==
    \/ w[4] < 128 /\ \A k \in 5..WordBytes : w[k] = 0
    \/ w[4] >= 128 /\ \A k \in 5..WordBytes : w[k] = 255

\* the value of an int64_t as a loop bound of an int counter: the number of
\* iterations of "for (i = 0; i < w; i++)"
LoopCount(w) ==
    IF IsNeg64(w) THEN 0 ELSE IF FitsInt32(w) THEN Low32(w) ELSE MaxInt32

\* int addition and multiplication, wrapping to 32 bits
Add32(a, b) ==
    IF a > 0 /\ b > 0 /\ a > MaxInt32 - b THEN (a + MinInt32) + (b + MinInt32)
    ELSE IF a < 0 /\ b < 0 /\ a < MinInt32 - b THEN (a - MinInt32) + (b - MinInt32)
    ELSE a + b

\* the low and the high 16 bits of the product of two 16-bit values
Lo16Mul(x, y) == (x * (y % 256) + ((x * (y \div 256)) % 256) * 256) % 65536
Hi16Mul(x, y) ==
    ((x * (y \div 256)) \div 256
     + (((x * (y \div 256)) % 256) * 256 + x * (y % 256)) \div 65536) % 65536

\* the int of the low 16 bits lo and the next 16 bits hi
Int32Of(hi, lo) == IF hi >= 32768 THEN (hi - 65536) * 65536 + lo ELSE hi * 65536 + lo

Mul32(a, k) ==
    Int32Of((Hi16Mul(a % 65536, k % 65536)
             + Lo16Mul((a \div 65536) % 65536, k % 65536)
             + Lo16Mul(a % 65536, (k \div 65536) % 65536)) % 65536,
            Lo16Mul(a % 65536, k % 65536))

(***************************************************************************)
(* Memory blocks.  mem holds the bytes written so far, from offset 0; a    *)
(* byte past Len(mem) was never written and reads as jk, the value the     *)
(* indeterminate memory of this run happens to hold.                       *)
(***************************************************************************)
\* n bytes of value jk
Fill(n, jk) == <<>> \o [k \in 1..n |-> jk]

\* mem with its first n bytes present
Pad(mem, n, jk) == IF Len(mem) >= n THEN mem ELSE mem \o Fill(n - Len(mem), jk)

Load(mem, off, n, jk) == SubSeq(Pad(mem, off + n, jk), off + 1, off + n)

Store(mem, off, bytes, jk) ==
    IF Len(bytes) = 0 THEN mem
    ELSE LET p == Pad(mem, off + Len(bytes), jk)
         IN  SubSeq(p, 1, off) \o bytes \o SubSeq(p, off + Len(bytes) + 1, Len(p))

LoadWord(mem, off, jk) == Load(mem, off, WordBytes, jk)

\* the number of size-byte items from off on that reach into the written bytes
Written(mem, off, size) == (Max(Len(mem) - off, 0) + size - 1) \div size

\* DARSHAN_BSWAP64 applied to each int64_t of b, a whole number of them
RECURSIVE SwapSeq(_)
SwapSeq(b) ==
    IF Len(b) < WordBytes THEN b
    ELSE IF Len(b) = WordBytes THEN Bswap64(b)
    ELSE LET h == ((Len(b) \div WordBytes) \div 2) * WordBytes
         IN  SwapSeq(SubSeq(b, 1, h)) \o SwapSeq(SubSeq(b, h + 1, Len(b)))

\* DARSHAN_BSWAP64 applied in place to n consecutive int64_t at off
\* (a value of which every byte is jk is its own byte swap: the values that
\* lie wholly in never-written memory stay as they are)
SwapWords(mem, off, n, jk) ==
    LET k == Min(n, Written(mem, off, WordBytes))
    IN  IF k <= 0 THEN mem
        ELSE Store(mem, off, SwapSeq(Load(mem, off, k * WordBytes, jk)), jk)

FreeBlock == [live |-> FALSE, size |-> 0, mem |-> <<>>]
AddrIds == 1..NumAddrs
\* the address of heap block a, and the bytes of a pointer
AddrOf(a) == a * HeapStride
PtrBytes(p) == LE64(p)

(***************************************************************************)
(* The container's primitives (darshan_log_get_mod, darshan_log_put_mod)   *)
(* and the allocator.                                                      *)
(***************************************************************************)
\* read up to len bytes of the module region at the cursor pos: the bytes
\* delivered, their number (or -1 on an error) and the new cursor
GetMod(region, pos, len, err) ==
    IF err \/ len < 0 THEN [ret |-> -1, data |-> <<>>, pos |-> pos]
    ELSE LET n == Min(len, Len(region) - pos)
         IN  [ret |-> n, data |-> SubSeq(region, pos + 1, pos + n), pos |-> pos + n]

ReadLog(len, r) == [len |-> len, ret |-> r.ret]

\* append len bytes of buf under the module, tagged with version ver
PutMod(mod, buf, len, ver) == [mod |-> mod, data |-> buf, len |-> len, ver |-> ver]

FreeAddrs(heap) == {a \in AddrIds : ~heap[a].live}

\* malloc(size): the block handed out, or NULL
Malloc(heap, size, fail) ==
    IF fail \/ size < 0 \/ FreeAddrs(heap) = {} THEN NULL
    ELSE CHOOSE a \in FreeAddrs(heap) : \A b \in FreeAddrs(heap) : a <= b

FreshBlock(size) == [live |-> TRUE, size |-> size, mem |-> <<>>]

\* realloc(a, size): NULL with block a untouched, or the block (a itself, or
\* another one when the allocator moves it) holding a's bytes up to size
ReallocAddr(heap, a, size, how) ==
    IF how = "realloc" \/ size < 0 THEN NULL
    ELSE IF how = "move" /\ FreeAddrs(heap) # {}
         THEN CHOOSE b \in FreeAddrs(heap) : \A d \in FreeAddrs(heap) : b <= d
         ELSE a

ReallocHeap(heap, a, b, size) ==
    LET old == heap[a]
        kept == IF Len(old.mem) > size THEN SubSeq(old.mem, 1, size) ELSE old.mem
        grown == [live |-> TRUE, size |-> size, mem |-> kept]
    IN  IF b = a THEN [heap EXCEPT ![a] = grown]
        ELSE [heap EXCEPT ![a] = FreeBlock, ![b] = grown]

Free(heap, a) == [heap EXCEPT ![a] = FreeBlock]

\* what a get_record call leaves behind
Result(ret, bufp, heap, pos, reads, allocs) ==
    [ret |-> ret, bufp |-> bufp, heap |-> heap, pos |-> pos,
     reads |-> reads, allocs |-> allocs]

\* lines 160-168 (and 235-243): hand the buffer of this call to the caller
\* when ret is 1, release it otherwise; a buffer of the caller stays as it is
Finish(ret, bufp, rec, heap, pos, reads, allocs) ==
    IF bufp # NULL THEN Result(ret, bufp, heap, pos, reads, allocs)
    ELSE IF ret = 1 THEN Result(ret, rec, heap, pos, reads, allocs)
    ELSE Result(ret, bufp, Free(heap, rec), pos, reads, allocs)

(***************************************************************************)
(* darshan_log_get_lustre_record, current format.                          *)
(***************************************************************************)
\* the int sum of the stripe counts of components lo+1..hi at base
RECURSIVE SumWritten(_, _, _, _, _)
SumWritten(mem, base, lo, hi, jk) ==
    IF hi <= lo THEN 0
    ELSE IF hi = lo + 1
    THEN Low32(LoadWord(mem, base + lo * CompSize
                             + LUSTRE_COMP_STRIPE_COUNT * WordBytes, jk))
    ELSE LET mid == (lo + hi) \div 2
         IN  Add32(SumWritten(mem, base, lo, mid, jk),
                   SumWritten(mem, base, mid, hi, jk))

\* a variant of SumStripeCounts that assigns each stripe count to num_osts
\* instead of adding it: the stripe count of component n alone
LastStripeCount(mem, base, n, jk) == SumWritten(mem, base, Max(n, 1) - 1, Max(n, 1), jk)

\* num_osts: the int sum of the stripe counts of the first n components
\* (the components that lie wholly in never-written memory all hold the
\* same stripe count, made of bytes jk)
SumStripeCounts(mem, base, n, jk) ==
    LET k == Max(Min(n, Written(mem, base, CompSize)), 0)
    IN  Add32(SumWritten(mem, base, 0, k, jk),
              Mul32(Low32(Fill(WordBytes, jk)), Max(n, 0) - k))

\* the byte swap of every counter of the components held in b
RECURSIVE SwapCompSeq(_)
SwapCompSeq(b) ==
    IF Len(b) < CompSize THEN b
    ELSE IF Len(b) = CompSize
    THEN SwapSeq(SubSeq(b, 1, LUSTRE_COMP_NUM_INDICES * WordBytes))
         \o SubSeq(b, LUSTRE_COMP_NUM_INDICES * WordBytes + 1, CompSize)
    ELSE LET h == ((Len(b) \div CompSize) \div 2) * CompSize
         IN  SwapCompSeq(SubSeq(b, 1, h)) \o SwapCompSeq(SubSeq(b, h + 1, Len(b)))

\* the byte swap of every counter of the first n components at base
SwapComps(mem, base, n, jk) ==
    LET k == Min(n, Written(mem, base, CompSize))
    IN  IF k <= 0 THEN mem
        ELSE Store(mem, base, SwapCompSeq(Load(mem, base, k * CompSize, jk)), jk)

\* lines 148-168: the outcome of the OST list read r3, and the result
OstsRead(fd, bufp, heap, jk, rec, comps_size, num_osts, osts_size, reads, allocs, r3) ==
    LET m6 == Store(heap[rec].mem, RecStructSize + comps_size, r3.data, jk)
        m7 == IF r3.ret >= osts_size /\ fd.swap
              THEN SwapWords(m6, RecStructSize + comps_size, num_osts, jk)
              ELSE m6
    IN  Finish(IF r3.ret >= osts_size THEN 1 ELSE -1, bufp, rec,
               [heap EXCEPT ![rec].mem = m7], r3.pos,
               Append(reads, ReadLog(osts_size, r3)), allocs)

\* lines 137-147: the pointers of the record rec, then the read of the OST list
ReadOsts(fd, pos, bufp, heap, jk, nd, rec, comps_size, num_osts, osts_size, reads, allocs) ==
    LET m4 == Store(heap[rec].mem, OffCompsPtr,
                    PtrBytes(AddrOf(rec) + RecStructSize), jk)
        m5 == Store(m4, OffOstPtr,
                    PtrBytes(AddrOf(rec) + RecStructSize + comps_size), jk)
    IN  OstsRead(fd, bufp, [heap EXCEPT ![rec].mem = m5], jk, rec, comps_size,
                 num_osts, osts_size, reads, allocs,
                 GetMod(fd.region, pos, osts_size, nd = "read3"))

\* lines 133-136: rec2 is what realloc returned
Grown(fd, pos, bufp, heap, jk, nd, rec, comps_size, num_osts, osts_size, reads, allocs, newsize, rec2) ==
    IF rec2 = NULL THEN Result(-1, bufp, heap, pos, reads, allocs)
    ELSE ReadOsts(fd, pos, bufp, ReallocHeap(heap, rec, rec2, newsize), jk, nd,
                  rec2, comps_size, num_osts, osts_size, reads, allocs)

\* lines 130-136: the size of the OST list and the growth of a buffer of
\* this call
GrowRecord(fd, pos, bufp, heap, jk, nd, rec, comps_size, num_osts, reads, allocs) ==
    IF bufp # NULL
    THEN ReadOsts(fd, pos, bufp, heap, jk, nd, rec, comps_size, num_osts,
                  Mul32(num_osts, WordBytes), reads, allocs)
    ELSE Grown(fd, pos, bufp, heap, jk, nd, rec, comps_size, num_osts,
               Mul32(num_osts, WordBytes), reads,
               Append(allocs, RecStructSize + comps_size + Mul32(num_osts, WordBytes)),
               RecStructSize + comps_size + Mul32(num_osts, WordBytes),
               ReallocAddr(heap, rec, RecStructSize + comps_size
                                      + Mul32(num_osts, WordBytes), nd))

\* lines 128-129: num_osts from the components the record holds
CountOsts(fd, pos, bufp, heap, jk, nd, rec, comps_size, reads, allocs) ==
    GrowRecord(fd, pos, bufp, heap, jk, nd, rec, comps_size,
               SumStripeCounts(heap[rec].mem, RecStructSize,
                               LoopCount(LoadWord(heap[rec].mem, OffNumComps, jk)), jk),
               reads, allocs)

\* lines 116-126: the outcome of the component read r2
CompsRead(fd, bufp, heap, jk, nd, rec, comps_size, reads, allocs, r2) ==
    LET m2 == Store(heap[rec].mem, RecStructSize, r2.data, jk)
        m3 == IF r2.ret >= comps_size /\ fd.swap
              THEN SwapComps(m2, RecStructSize,
                             LoopCount(LoadWord(heap[rec].mem, OffNumComps, jk)), jk)
              ELSE m2
    IN  CountOsts(fd, r2.pos, bufp, [heap EXCEPT ![rec].mem = m3], jk, nd, rec,
                  comps_size, Append(reads, ReadLog(comps_size, r2)), allocs)

\* lines 106-115: the pointer to the components, then their read
GetLustreComps(fd, pos, bufp, heap, jk, nd, rec, comps_size, reads, allocs) ==
    CompsRead(fd, bufp,
              [heap EXCEPT ![rec].mem =
                  Store(@, OffCompsPtr, PtrBytes(AddrOf(rec) + RecStructSize), jk)],
              jk, nd, rec, comps_size, reads, allocs,
              GetMod(fd.region, pos, comps_size, nd = "read2"))

\* lines 98-103: the header copied into the buffer rec; a record without
\* components is complete, with ret still the length of the header read
CopyHeader(fd, pos, bufp, heap, jk, nd, tmp_rec, rec, comps_size, reads, allocs) ==
    LET m1 == Store(heap[rec].mem, 0, tmp_rec, jk)
        num_comps == SubSeq(tmp_rec, OffNumComps + 1, OffNumComps + WordBytes)
    IN  IF IsNeg64(num_comps) \/ IsZero64(num_comps)
        THEN Finish(reads[1].ret, bufp, rec,
                    [heap EXCEPT ![rec].mem =
                        Store(Store(m1, OffCompsPtr, PtrBytes(NULL), jk),
                              OffOstPtr, PtrBytes(NULL), jk)],
                    pos, reads, allocs)
        ELSE GetLustreComps(fd, pos, bufp, [heap EXCEPT ![rec].mem = m1], jk, nd,
                            rec, comps_size, reads, allocs)

\* lines 92-97: the buffer of the caller, or one of this call (rec is what
\* malloc returned)
Buffer(fd, pos, bufp, heap, jk, nd, tmp_rec, comps_size, reads, rec) ==
    IF bufp # NULL
    THEN CopyHeader(fd, pos, bufp, heap, jk, nd, tmp_rec, bufp, comps_size, reads, <<>>)
    ELSE IF rec = NULL
    THEN Result(-1, bufp, heap, pos, reads, <<RecStructSize + comps_size>>)
    ELSE CopyHeader(fd, pos, bufp,
                    [heap EXCEPT ![rec] = FreshBlock(RecStructSize + comps_size)],
                    jk, nd, tmp_rec, rec, comps_size, reads,
                    <<RecStructSize + comps_size>>)

\* line 91: comps_size, an int
CompsSize(tmp_rec) ==
    Mul32(Low32(SubSeq(tmp_rec, OffNumComps + 1, OffNumComps + WordBytes)), CompSize)

\* lines 78-97: the outcome of the header read r1; the header in host order
HeaderRead(fd, bufp, heap, jk, nd, tmp_rec, r1) ==
    IF r1.ret < 0 THEN Result(-1, bufp, heap, r1.pos, <<ReadLog(FixedSize, r1)>>, <<>>)
    ELSE IF r1.ret < FixedSize
    THEN Result(0, bufp, heap, r1.pos, <<ReadLog(FixedSize, r1)>>, <<>>)
    ELSE Buffer(fd, r1.pos, bufp, heap, jk, nd, tmp_rec, CompsSize(tmp_rec),
                <<ReadLog(FixedSize, r1)>>,
                IF bufp = NULL
                THEN Malloc(heap, RecStructSize + CompsSize(tmp_rec), nd = "malloc")
                ELSE bufp)

\* lines 84-89: the header normalised to host byte order
SwapHeader(fd, jk, r1) ==
    IF fd.swap /\ r1.ret >= FixedSize THEN SwapWords(r1.data, 0, 3, jk) ELSE r1.data

\* lines 75-77: the read of the fixed-size portion
ReadHeader(fd, bufp, heap, jk, nd, r1) ==
    HeaderRead(fd, bufp, heap, jk, nd, SwapHeader(fd, jk, r1), r1)

GetLustreCurrent(fd, pos, bufp, heap, jk, nd) ==
    ReadHeader(fd, bufp, heap, jk, nd, GetMod(fd.region, pos, FixedSize, nd = "read1"))

(***************************************************************************)
(* darshan_log_get_lustre_record_v1: the version 1 record.                 *)
(***************************************************************************)
\* a < b for an int a and a size_t b, each given by its signed value: C
\* converts the int to size_t, so a negative a is the larger one
ULess(a, b) == IF (a >= 0) = (b >= 0) THEN a < b ELSE b < 0

\* n * sizeof(OST_ID) for the int64_t w, as a signed value; a product the
\* model's integers cannot hold is given as HugeSize in its direction
HugeSize == 1073741824
OstBytes(w) ==
    IF FitsInt32(w) /\ Low32(w) < 16777216 /\ Low32(w) > -16777216
    THEN Low32(w) * WordBytes
    ELSE IF IsNeg64(w) THEN -HugeSize ELSE HugeSize

\* a variant of V1Component that leaves the unknown counters at 0 instead of
\* the sentinel -1
V1ComponentZeroed(mem, stripe_size, stripe_count, jk) ==
    LET c == RecStructSize
        a1 == Store(mem, c + LUSTRE_COMP_STRIPE_SIZE * WordBytes, stripe_size, jk)
        a2 == Store(a1, c + LUSTRE_COMP_STRIPE_COUNT * WordBytes, stripe_count, jk)
        a3 == Store(a2, c + LUSTRE_COMP_STRIPE_PATTERN * WordBytes,
                    Fill(5 * WordBytes, 0), jk)
    IN  Store(a3, c + LUSTRE_COMP_NUM_INDICES * WordBytes, <<0>>, jk)

\* the component a version 1 record is given (lines 210-217)
V1Component(mem, stripe_size, stripe_count, jk) ==
    LET c == RecStructSize
        a1 == Store(mem, c + LUSTRE_COMP_STRIPE_SIZE * WordBytes, stripe_size, jk)
        a2 == Store(a1, c + LUSTRE_COMP_STRIPE_COUNT * WordBytes, stripe_count, jk)
        a3 == Store(a2, c + LUSTRE_COMP_STRIPE_PATTERN * WordBytes, LE64(-1), jk)
        a4 == Store(a3, c + LUSTRE_COMP_FLAGS * WordBytes, LE64(-1), jk)
        a5 == Store(a4, c + LUSTRE_COMP_EXT_START * WordBytes, LE64(0), jk)
        a6 == Store(a5, c + LUSTRE_COMP_EXT_END * WordBytes, LE64(-1), jk)
        a7 == Store(a6, c + LUSTRE_COMP_MIRROR_ID * WordBytes, LE64(-1), jk)
    IN  Store(a7, c + LUSTRE_COMP_NUM_INDICES * WordBytes, <<0>>, jk)

\* lines 224-243: the outcome of the OST list read r2, and the result
V1OstsRead(fd, bufp, heap, jk, rec, stripe_count, osts_size, reads, allocs, r2) ==
    LET m6 == Store(heap[rec].mem, RecStructSize + CompSize, r2.data, jk)
        m7 == IF ~ULess(r2.ret, osts_size) /\ fd.swap
              THEN SwapWords(m6, RecStructSize + CompSize, LoopCount(stripe_count), jk)
              ELSE m6
    IN  Finish(IF ULess(r2.ret, osts_size) THEN -1 ELSE 1, bufp, rec,
               [heap EXCEPT ![rec].mem = m7], r2.pos,
               Append(reads, ReadLog(osts_size, r2)), allocs)

\* lines 202-223: the record filled in, then the read of the OST list
V1Fill(fd, pos, bufp, heap, jk, nd, fixed_record, rec, osts_size, reads, allocs) ==
    LET m1 == Store(heap[rec].mem, 0, SubSeq(fixed_record, 1, BaseRecSize), jk)
        m2 == Store(m1, OffNumComps, LE64(1), jk)
        m3 == Store(m2, OffCompsPtr, PtrBytes(AddrOf(rec) + RecStructSize), jk)
        m4 == Store(m3, OffOstPtr,
                    PtrBytes(AddrOf(rec) + RecStructSize + CompSize), jk)
        m5 == V1Component(m4, SubSeq(fixed_record, 5 * WordBytes + 1, 6 * WordBytes),
                          SubSeq(fixed_record, 6 * WordBytes + 1, 7 * WordBytes), jk)
    IN  V1OstsRead(fd, bufp, [heap EXCEPT ![rec].mem = m5], jk, rec,
                   SubSeq(fixed_record, 6 * WordBytes + 1, 7 * WordBytes),
                   osts_size, reads, allocs,
                   GetMod(fd.region, pos, osts_size, nd = "read2"))

\* lines 194-200: the buffer of the caller, or one of this call (rec is what
\* malloc returned)
V1Buffer(fd, pos, bufp, heap, jk, nd, fixed_record, osts_size, reads, rec) ==
    IF bufp # NULL
    THEN V1Fill(fd, pos, bufp, heap, jk, nd, fixed_record, bufp, osts_size, reads, <<>>)
    ELSE IF rec = NULL
    THEN Result(-1, bufp, heap, pos, reads, <<RecStructSize + CompSize + osts_size>>)
    ELSE V1Fill(fd, pos, bufp,
                [heap EXCEPT ![rec] = FreshBlock(RecStructSize + CompSize + osts_size)],
                jk, nd, fixed_record, rec, osts_size, reads,
                <<RecStructSize + CompSize + osts_size>>)

\* lines 191-197: stripe_count * sizeof(OST_ID) for the block fixed_record
V1OstsSize(fixed_record) ==
    OstBytes(SubSeq(fixed_record, 6 * WordBytes + 1, 7 * WordBytes))

\* lines 181-197: the outcome of the read r1 of the fixed-size block
V1HeaderRead(fd, bufp, heap, jk, nd, fixed_record, r1) ==
    IF r1.ret < 0 THEN Result(-1, bufp, heap, r1.pos, <<ReadLog(V1FixedSize, r1)>>, <<>>)
    ELSE IF r1.ret < V1FixedSize
    THEN Result(0, bufp, heap, r1.pos, <<ReadLog(V1FixedSize, r1)>>, <<>>)
    ELSE V1Buffer(fd, r1.pos, bufp, heap, jk, nd, fixed_record,
                  V1OstsSize(fixed_record), <<ReadLog(V1FixedSize, r1)>>,
                  IF bufp = NULL
                  THEN Malloc(heap, RecStructSize + CompSize + V1OstsSize(fixed_record),
                              nd = "malloc")
                  ELSE bufp)

\* lines 187-189: the block normalised to host byte order
V1SwapHeader(fd, jk, r1) ==
    IF fd.swap /\ r1.ret >= V1FixedSize THEN SwapWords(r1.data, 0, 7, jk) ELSE r1.data

\* lines 179-180: the read of the fixed-size block
V1ReadHeader(fd, bufp, heap, jk, nd, r1) ==
    V1HeaderRead(fd, bufp, heap, jk, nd, V1SwapHeader(fd, jk, r1), r1)

GetLustreRecordV1(fd, pos, bufp, heap, jk, nd) ==
    V1ReadHeader(fd, bufp, heap, jk, nd,
                 GetMod(fd.region, pos, V1FixedSize, nd = "read1"))

\* a variant of GetLustreRecord without the check of the module version
GetLustreRecordUngated(fd, pos, bufp, heap, jk, nd) ==
    IF Len(fd.region) = 0 THEN Result(0, bufp, heap, pos, <<>>, <<>>)
    ELSE IF fd.ver = 1 THEN GetLustreRecordV1(fd, pos, bufp, heap, jk, nd)
    ELSE GetLustreCurrent(fd, pos, bufp, heap, jk, nd)

\* darshan_log_get_lustre_record (lines 51-73, then one of the two formats)
GetLustreRecord(fd, pos, bufp, heap, jk, nd) ==
    IF Len(fd.region) = 0 THEN Result(0, bufp, heap, pos, <<>>, <<>>)
    ELSE IF fd.ver = 0 \/ fd.ver > DARSHAN_LUSTRE_VER
    THEN Result(-1, bufp, heap, pos, <<>>, <<>>)
    ELSE IF fd.ver = 1 THEN GetLustreRecordV1(fd, pos, bufp, heap, jk, nd)
    ELSE GetLustreCurrent(fd, pos, bufp, heap, jk, nd)

(***************************************************************************)
(* darshan_log_put_lustre_record and darshan_log_put_stdio_record.         *)
(***************************************************************************)
\* LUSTRE_RECORD_SIZE(comps, osts)
LUSTRE_RECORD_SIZE(comps, osts) == FixedSize + CompSize * comps + WordBytes * osts

\* the offset in block rec that the pointer stored at off points to
PtrOffset(mem, off, rec, jk) == Low32(LoadWord(mem, off, jk)) - AddrOf(rec)

\* a variant of PutNumOsts that counts the first component only
PutNumOstsFirst(mem, rec, jk) ==
    SumStripeCounts(mem, PtrOffset(mem, OffCompsPtr, rec, jk),
                    Min(1, LoopCount(LoadWord(mem, OffNumComps, jk))), jk)

\* lines 253-256: num_osts recomputed from the components of the record
PutNumOsts(mem, rec, jk) ==
    SumStripeCounts(mem, PtrOffset(mem, OffCompsPtr, rec, jk),
                    LoopCount(LoadWord(mem, OffNumComps, jk)), jk)

\* the call of darshan_log_put_mod (lines 258-259)
PutLustreRecord(heap, rec, jk) ==
    LET mem == heap[rec].mem
        num_comps == LoopCount(LoadWord(mem, OffNumComps, jk))
        len == LUSTRE_RECORD_SIZE(num_comps, PutNumOsts(mem, rec, jk))
    IN  PutMod("LUSTRE", Load(mem, 0, len, jk), len, DARSHAN_LUSTRE_VER)

\* a variant of PutStdioRecord that tags the record with its argument ver
PutStdioRecordAt(stdio_buf, ver) ==
    PutMod("STDIO", SubSeq(stdio_buf, 1, StdioRecSize), StdioRecSize, ver)

\* the call of darshan_log_put_mod (lines 118-119 of the STDIO codec)
PutStdioRecord(stdio_buf, ver) ==
    PutMod("STDIO", SubSeq(stdio_buf, 1, StdioRecSize), StdioRecSize, DARSHAN_STDIO_VER)

\* the return value of both put_record functions
PutReturn(ret) == IF ret < 0 THEN -1 ELSE 0

(***************************************************************************)
(* darshan_log_get_stdio_record.                                           *)
(***************************************************************************)
\* the int64_t and double values of a struct darshan_stdio_file
StdioWords == 2 + STDIO_NUM_INDICES + STDIO_F_NUM_INDICES

\* a variant of StdioSwap that leaves id and rank as they were read
StdioSwapCounters(fd, mem, jk) ==
    IF fd.swap
    THEN SwapWords(mem, BaseRecSize, STDIO_NUM_INDICES + STDIO_F_NUM_INDICES, jk)
    ELSE mem

\* lines 95-103 of the STDIO codec: id, rank and every counter byte-swapped
StdioSwap(fd, mem, jk) ==
    IF fd.swap THEN SwapWords(mem, 0, StdioWords, jk) ELSE mem

\* lines 80-106: the outcome of the read r into the buffer file
StdioRead(fd, bufp, heap, jk, file, allocs, r) ==
    IF r.ret < StdioRecSize
    THEN Result(IF r.ret < 0 THEN -1 ELSE 0, bufp,
                IF bufp = NULL THEN Free(heap, file)
                ELSE [heap EXCEPT ![file].mem = Store(@, 0, r.data, jk)],
                r.pos, <<ReadLog(StdioRecSize, r)>>, allocs)
    ELSE Result(1, file,
                [heap EXCEPT ![file].mem = StdioSwap(fd, Store(@, 0, r.data, jk), jk)],
                r.pos, <<ReadLog(StdioRecSize, r)>>, allocs)

\* lines 69-78: the buffer of the caller, or one of this call (file is what
\* malloc returned), then the read of the record
StdioBuffer(fd, pos, bufp, heap, jk, nd, file) ==
    IF bufp # NULL
    THEN StdioRead(fd, bufp, heap, jk, bufp, <<>>,
                   GetMod(fd.region, pos, StdioRecSize, nd = "read1"))
    ELSE IF file = NULL THEN Result(-1, bufp, heap, pos, <<>>, <<StdioRecSize>>)
    ELSE StdioRead(fd, bufp, [heap EXCEPT ![file] = FreshBlock(StdioRecSize)], jk,
                   file, <<StdioRecSize>>,
                   GetMod(fd.region, pos, StdioRecSize, nd = "read1"))

\* darshan_log_get_stdio_record (lines 60-107); fd.region is the region of
\* the STDIO module
GetStdioRecord(fd, pos, bufp, heap, jk, nd) ==
    IF Len(fd.region) = 0 THEN Result(0, bufp, heap, pos, <<>>, <<>>)
    ELSE StdioBuffer(fd, pos, bufp, heap, jk, nd,
                     IF bufp = NULL THEN Malloc(heap, StdioRecSize, nd = "malloc")
                     ELSE bufp)

(***************************************************************************)
(* The logs the model reads: records of up to MaxComps components.         *)
(***************************************************************************)
StripeCounts == {0, 1, 2}

\* an int64_t as the writing host stored it
EncWord(n, swap) == IF swap THEN Bswap64(LE64(n)) ELSE LE64(n)

RECURSIVE Flatten(_)
Flatten(ss) == IF Len(ss) = 0 THEN <<>> ELSE Head(ss) \o Flatten(Tail(ss))

PoolName(i) ==
    IF i % 2 = 0 THEN Fill(LUSTRE_POOL_NAME_LEN, 0)
    ELSE <<112, 48 + i>> \o Fill(LUSTRE_POOL_NAME_LEN - 2, 0)

CompBytes(i, sc, swap) ==
    EncWord(65536 * i, swap) \o EncWord(sc, swap) \o EncWord(0, swap)
    \o EncWord(4 + i, swap) \o EncWord(1024 * (i - 1), swap)
    \o EncWord(IF i = 1 THEN 1024 ELSE -1, swap) \o EncWord(i, swap) \o PoolName(i)

RECURSIVE SeqSum(_)
SeqSum(s) == IF Len(s) = 0 THEN 0 ELSE Head(s) + SeqSum(Tail(s))

\* a current-format record: header, components scs[1..], OST ids first+1..
RecordBytes(id, rank, scs, first, swap) ==
    EncWord(id, swap) \o EncWord(rank, swap) \o EncWord(Len(scs), swap)
    \o Flatten([i \in 1..Len(scs) |-> CompBytes(i, scs[i], swap)])
    \o Flatten([k \in 1..SeqSum(scs) |-> EncWord(first + k, swap)])

\* a version 1 record: id, rank, three unused values, stripe size and count
V1RecordBytes(id, rank, u, sc, first, swap) ==
    EncWord(id, swap) \o EncWord(rank, swap) \o EncWord(u, swap)
    \o EncWord(u + 1, swap) \o EncWord(u + 2, swap) \o EncWord(65536, swap)
    \o EncWord(sc, swap) \o Flatten([k \in 1..sc |-> EncWord(first + k, swap)])

Shapes == UNION {[1..n -> StripeCounts] : n \in 0..MaxComps}
Cuts == {0, 8, 80}
CutEnd(s, cut) == IF Len(s) > cut THEN SubSeq(s, 1, Len(s) - cut) ELSE s

CurrentRegions(swap) ==
    {CutEnd(RecordBytes(258, 3, scs, 100, swap) \o more, cut) :
        scs \in Shapes, cut \in Cuts,
        more \in {<<>>, RecordBytes(515, -1, <<1>>, 200, swap)}}

V1Regions(swap) ==
    {CutEnd(V1RecordBytes(258, 3, u, sc, 100, swap) \o more, cut) :
        u \in {0, 7}, sc \in StripeCounts, cut \in Cuts,
        more \in {<<>>, V1RecordBytes(515, -1, 0, 1, 200, swap)}}

Regions(ver, swap) ==
    {<<>>} \cup
    (IF ver = 1 THEN V1Regions(swap)
     ELSE IF ver = DARSHAN_LUSTRE_VER THEN CurrentRegions(swap)
     ELSE {RecordBytes(258, 3, <<1>>, 100, swap)})

\* the STDIO records the caller writes
StdioRecords == {Fill(StdioRecSize, v) : v \in {1, 3}}

\* the values the indeterminate bytes of a run may hold
JunkBytes == {0, 1}
\* what the allocator and the reader do in one call
Outcomes == {"none", "malloc", "realloc", "move", "read1", "read2", "read3"}

(***************************************************************************)
(* The state: one opened log (fd, the cursor pos of the LUSTRE region),    *)
(* the heap, the caller's buffer pointer, and a record of the last call.   *)
(***************************************************************************)
VARIABLES fd, pos, heap, bufp, junk, calls, done, last, out

vars == <<fd, pos, heap, bufp, junk, calls, done, last, out>>

NoWrite == [mod |-> "", data |-> <<>>, len |-> -1, ver |-> -1]
NoCall == [op |-> "none", ret |-> 0, nd |-> "none", arg |-> 0, pos0 |-> 0,
           bufp0 |-> NULL, heap0 |-> [a \in AddrIds |-> FreeBlock],
           reads |-> <<>>, allocs |-> <<>>]

Init ==
    /\ \E ver \in 0..(DARSHAN_LUSTRE_VER + 1), swap \in BOOLEAN :
         \E region \in Regions(ver, swap) :
            fd = [ver |-> ver, swap |-> swap, region |-> region]
    /\ pos = 0
    /\ heap = [a \in AddrIds |-> FreeBlock]
    /\ bufp = NULL
    /\ junk \in JunkBytes
    /\ calls = 0
    /\ done = FALSE
    /\ last = NoCall
    /\ out = NoWrite

\* the caller allocates the buffer it will supply to get_record
CallerAlloc ==
    /\ bufp = NULL
    /\ out.mod # "STDIO"
    /\ calls < MaxCalls /\ ~done
    /\ last.op \in {"none", "release"}
    /\ FreeAddrs(heap) # {}
    /\ LET a == Malloc(heap, CallerBufSize, FALSE)
       IN  /\ heap' = [heap EXCEPT ![a] = FreshBlock(CallerBufSize)]
           /\ bufp' = a
    /\ last' = [NoCall EXCEPT !.op = "alloc"]
    /\ UNCHANGED <<fd, pos, junk, calls, done, out>>

\* the caller releases the record it holds
Release ==
    /\ bufp # NULL
    /\ heap' = Free(heap, bufp)
    /\ bufp' = NULL
    /\ last' = [NoCall EXCEPT !.op = "release"]
    /\ UNCHANGED <<fd, pos, junk, calls, done, out>>

\* what the call that returned r with the outcomes nd leaves behind
Returned(nd, r) ==
    /\ pos' = r.pos
    /\ heap' = r.heap
    /\ bufp' = r.bufp
    /\ last' = [op |-> "get", ret |-> r.ret, nd |-> nd, arg |-> 0,
                pos0 |-> pos, bufp0 |-> bufp, heap0 |-> heap,
                reads |-> r.reads, allocs |-> r.allocs]
    /\ done' = (r.ret <= 0)

\* one call of lustre_logutils.log_get_record; the caller iterates until a
\* call returns no record (0: no more data, negative: an error)
GetRecord ==
    /\ calls < MaxCalls /\ ~done
    /\ out.mod # "STDIO"
    /\ IF bufp = NULL THEN TRUE ELSE heap[bufp].size >= CallerBufSize
    /\ \E nd \in Outcomes :
         Returned(nd, GetLustreRecord(fd, pos, bufp, heap, junk, nd))
    /\ calls' = calls + 1
    /\ UNCHANGED <<fd, junk, out>>

\* one call of lustre_logutils.log_put_record on the record just decoded;
\* last keeps the description of the get_record call that decoded it, whose
\* return value becomes last.arg
PutRecord ==
    /\ bufp # NULL
    /\ last.op = "get" /\ last.ret > 0
    /\ \E wret \in {0, -1} :
         /\ out' = PutLustreRecord(heap, bufp, junk)
         /\ last' = [last EXCEPT !.op = "put", !.ret = PutReturn(wret),
                                 !.arg = last.ret]
    /\ UNCHANGED <<fd, pos, heap, bufp, junk, calls, done>>

\* one call of stdio_logutils.log_put_record with the version ver, on a log
\* that holds no LUSTRE data
PutStdio ==
    /\ Len(fd.region) = 0 /\ calls = 0 /\ bufp = NULL
    /\ \E rec \in StdioRecords, ver \in 0..(DARSHAN_STDIO_VER + 1), wret \in {0, -1} :
         /\ out' = PutStdioRecord(rec, ver)
         /\ last' = [NoCall EXCEPT !.op = "put_stdio", !.ret = PutReturn(wret),
                                   !.arg = ver]
    /\ UNCHANGED <<fd, pos, heap, bufp, junk, calls, done>>

Next == CallerAlloc \/ Release \/ GetRecord \/ PutRecord \/ PutStdio

Spec == Init /\ [][Next]_vars

(***************************************************************************)
(* The STDIO reader: logs whose region (fd.region) is that of the STDIO    *)
(* module.                                                                 *)
(***************************************************************************)
\* a STDIO record as the writing host stored it
StdioRecordBytes(id, rank, swap) ==
    EncWord(id, swap) \o EncWord(rank, swap)
    \o Flatten([i \in 1..(STDIO_NUM_INDICES + STDIO_F_NUM_INDICES) |->
                   EncWord(1000 * id + i, swap)])

StdioRegions(swap) ==
    {<<>>} \cup
    {CutEnd(StdioRecordBytes(2, 3, swap) \o more, cut) :
        cut \in {0, WordBytes, StdioRecSize},
        more \in {<<>>, StdioRecordBytes(5, -1, swap)}}

StdioOutcomes == {"none", "malloc", "read1"}

InitStdio ==
    /\ \E swap \in BOOLEAN :
         \E region \in StdioRegions(swap) :
            fd = [ver |-> DARSHAN_STDIO_VER, swap |-> swap, region |-> region]
    /\ pos = 0
    /\ heap = [a \in AddrIds |-> FreeBlock]
    /\ bufp = NULL
    /\ junk \in JunkBytes
    /\ calls = 0
    /\ done = FALSE
    /\ last = NoCall
    /\ out = NoWrite

\* what the stdio call that returned r with the outcomes nd leaves behind
StdioReturned(nd, r) ==
    /\ pos' = r.pos
    /\ heap' = r.heap
    /\ bufp' = r.bufp
    /\ last' = [op |-> "get_stdio", ret |-> r.ret, nd |-> nd, arg |-> 0,
                pos0 |-> pos, bufp0 |-> bufp, heap0 |-> heap,
                reads |-> r.reads, allocs |-> r.allocs]
    /\ done' = (r.ret <= 0)

\* one call of stdio_logutils.log_get_record
GetStdio ==
    /\ calls < MaxCalls /\ ~done
    /\ IF bufp = NULL THEN TRUE ELSE heap[bufp].size >= StdioRecSize
    /\ \E nd \in StdioOutcomes :
         StdioReturned(nd, GetStdioRecord(fd, pos, bufp, heap, junk, nd))
    /\ calls' = calls + 1
    /\ UNCHANGED <<fd, junk, out>>

NextStdio == CallerAlloc \/ Release \/ GetStdio

SpecStdio == InitStdio /\ [][NextStdio]_vars

(***************************************************************************)
(* What a consumer sees of a record, and what the stream holds.            *)
(***************************************************************************)
\* the record held in block rec, read through its members the way
\* print_record reads it: the components and the OST ids behind the pointers
RecView(mem, rec, jk) ==
    LET n == LoopCount(LoadWord(mem, OffNumComps, jk))
        coff == PtrOffset(mem, OffCompsPtr, rec, jk)
        ooff == PtrOffset(mem, OffOstPtr, rec, jk)
        num == IF n = 0 THEN 0 ELSE SumStripeCounts(mem, coff, n, jk)
    IN  [id |-> LoadWord(mem, 0, jk),
         rank |-> LoadWord(mem, WordBytes, jk),
         num_comps |-> LoadWord(mem, OffNumComps, jk),
         comps |-> IF n = 0 THEN <<>> ELSE Load(mem, coff, n * CompSize, jk),
         ost_ids |-> IF num <= 0 THEN <<>> ELSE Load(mem, ooff, num * WordBytes, jk)]

\* counter j of component i of the components comps
Counter(comps, i, j) ==
    SubSeq(comps, i * CompSize + j * WordBytes + 1, i * CompSize + (j + 1) * WordBytes)

\* the sum of the stripe counts of the components comps
ViewNumOsts(comps) == SumStripeCounts(comps, 0, Len(comps) \div CompSize, 0)

\* the whole int64_t values of b byte-reversed, a trailing part of one kept
SwapWhole(b) ==
    LET h == (Len(b) \div WordBytes) * WordBytes
    IN  SwapSeq(SubSeq(b, 1, h)) \o SubSeq(b, h + 1, Len(b))

\* components on the stream with their counters byte-reversed and their pool
\* names kept; the last one may be cut short
RECURSIVE SwapCompParts(_)
SwapCompParts(b) ==
    IF Len(b) = 0 THEN <<>>
    ELSE LET c == Min(Len(b), LUSTRE_COMP_NUM_INDICES * WordBytes)
             e == Min(Len(b), CompSize)
         IN  SwapWhole(SubSeq(b, 1, c)) \o SubSeq(b, c + 1, e)
             \o SwapCompParts(SubSeq(b, e + 1, Len(b)))

\* the stream s of current-format records with every integer (id, rank,
\* num_comps, component counters, OST ids) byte-reversed
RECURSIVE Counterpart(_)
Counterpart(s) ==
    IF Len(s) < FixedSize THEN SwapWhole(s)
    ELSE LET hdr == SwapSeq(SubSeq(s, 1, FixedSize))
             n == LoopCount(SubSeq(hdr, OffNumComps + 1, OffNumComps + WordBytes))
             avail == Len(s) - FixedSize
             clen == IF n > avail \div CompSize THEN avail ELSE n * CompSize
             comps == SwapCompParts(SubSeq(s, FixedSize + 1, FixedSize + clen))
             num == Max(ViewNumOsts(comps), 0)
             left == avail - clen
             olen == IF num > left \div WordBytes THEN left ELSE num * WordBytes
             osts == SwapWhole(SubSeq(s, FixedSize + clen + 1, FixedSize + clen + olen))
         IN  hdr \o comps \o osts
             \o Counterpart(SubSeq(s, FixedSize + clen + olen + 1, Len(s)))

\* value k of the stream from where the last get_record call started, in
\* host byte order
StreamWord(k) ==
    LET w == SubSeq(fd.region, last.pos0 + k * WordBytes + 1,
                    last.pos0 + (k + 1) * WordBytes)
    IN  IF fd.swap THEN Bswap64(w) ELSE w

\* n values of the stream from offset off of the last call's start, in host
\* byte order
StreamWords(off, n) ==
    LET b == SubSeq(fd.region, last.pos0 + off + 1, last.pos0 + off + n * WordBytes)
    IN  IF fd.swap THEN SwapSeq(b) ELSE b

\* the bytes of the stream left at the start of the last get_record call
StreamLeft == Len(fd.region) - last.pos0

\* the record the caller holds
Held == RecView(heap[bufp].mem, bufp, junk)

\* the heap blocks that are live now and were not before the last call
NewBlocks == {a \in AddrIds : heap[a].live /\ ~last.heap0[a].live}

\* every read of the last call delivered the length it was asked for
FullReads == \A i \in 1..Len(last.reads) : last.reads[i].ret = last.reads[i].len

\* the last call met no fault of the reader or the allocator and had a
\* buffer to decode into
Served ==
    /\ last.nd = "none"
    /\ last.bufp0 = NULL => FreeAddrs(last.heap0) # {}

\* the bytes last written to the log, decoded as a current-format region
Redecoded(swap) ==
    GetLustreRecord([ver |-> DARSHAN_LUSTRE_VER, swap |-> swap, region |-> out.data],
                    0, NULL, [a \in AddrIds |-> FreeBlock], junk, "none")

(***************************************************************************)
(* Properties.                                                             *)
(***************************************************************************)
\* C1: a record that get_record decoded from a current-format log with every
\* read served in full, once written by put_record, decodes from the written
\* bytes (flag cleared, or as the log it came from) to an equal record: id,
\* rank, num_comps, components and OST ids.
RoundTrip ==
    (last.op = "put" /\ fd.ver = DARSHAN_LUSTRE_VER /\ last.arg = 1
        /\ last.nd = "none" /\ FullReads)
    => \E swap \in {FALSE, fd.swap} :
          LET r == Redecoded(swap)
          IN  /\ r.ret = 1
              /\ r.bufp # NULL
              /\ RecView(r.heap[r.bufp].mem, r.bufp, junk) = Held

\* C2: a current-format call whose component read delivers less than
\* num_comps * sizeof(component) bytes, or fails, returns a negative code.
TruncatedComponentsFail ==
    (last.op = "get" /\ fd.ver = DARSHAN_LUSTRE_VER /\ Len(last.reads) >= 2
        /\ last.reads[2].ret < last.reads[2].len)
    => last.ret < 0

\* C3: a current-format call without a buffer of the caller on a header whose
\* num_comps is 0 returns success and leaves the caller's pointer on a live
\* record with no component and no OST id, the cursor past the header only.
ZeroComponentsDecoded ==
    (last.op = "get" /\ fd.ver = DARSHAN_LUSTRE_VER /\ last.bufp0 = NULL
        /\ Served /\ Len(last.reads) >= 1 /\ last.reads[1].ret = FixedSize
        /\ IsZero64(StreamWord(2)))
    => /\ last.ret > 0
       /\ bufp # NULL
       /\ heap[bufp].live
       /\ IsZero64(Held.num_comps) /\ Held.comps = <<>> /\ Held.ost_ids = <<>>
       /\ pos = last.pos0 + FixedSize

\* C4: after a call without a buffer of the caller, either the call succeeded
\* and the caller's pointer is the one block the call left live, or the
\* pointer is null and no block the call allocated is live (so after every
\* failure); a buffer of the caller stays the caller's, live and of its size.
BufferReleasedOnFailure ==
    last.op = "get" =>
       IF last.bufp0 = NULL
       THEN \/ last.ret > 0 /\ bufp # NULL /\ NewBlocks = {bufp}
            \/ bufp = NULL /\ NewBlocks = {}
       ELSE /\ bufp = last.bufp0
            /\ heap[bufp].live
            /\ heap[bufp].size = last.heap0[bufp].size
            /\ NewBlocks = {}

\* the call read a version 1 record whose stripe count c is not negative and
\* is followed by c OST ids, with no fault and a buffer that holds it
V1Decodable ==
    /\ last.op = "get" /\ fd.ver = 1 /\ Served
    /\ StreamLeft >= V1FixedSize
    /\ ~IsNeg64(StreamWord(6)) /\ FitsInt32(StreamWord(6))
    /\ LoopCount(StreamWord(6)) <= (StreamLeft - V1FixedSize) \div WordBytes
    /\ last.bufp0 # NULL =>
          RecStructSize + CompSize + LoopCount(StreamWord(6)) * WordBytes
             <= last.heap0[last.bufp0].size

\* C5: a version 1 record with stripe size s and stripe count c >= 0 followed
\* by c OST ids decodes with return 1 to id, rank, one component (s, c,
\* pattern -1, flags -1, extent start 0, extent end -1, mirror id -1, empty
\* pool name) and the c ids in stream order, all in host byte order; values
\* 3 to 5 of the block are no part of the result.
LegacyUpgrade ==
    V1Decodable =>
       /\ last.ret = 1
       /\ bufp # NULL
       /\ Held.id = StreamWord(0)
       /\ Held.rank = StreamWord(1)
       /\ Held.num_comps = LE64(1)
       /\ Counter(Held.comps, 0, LUSTRE_COMP_STRIPE_SIZE) = StreamWord(5)
       /\ Counter(Held.comps, 0, LUSTRE_COMP_STRIPE_COUNT) = StreamWord(6)
       /\ Counter(Held.comps, 0, LUSTRE_COMP_STRIPE_PATTERN) = LE64(-1)
       /\ Counter(Held.comps, 0, LUSTRE_COMP_FLAGS) = LE64(-1)
       /\ Counter(Held.comps, 0, LUSTRE_COMP_EXT_START) = LE64(0)
       /\ Counter(Held.comps, 0, LUSTRE_COMP_EXT_END) = LE64(-1)
       /\ Counter(Held.comps, 0, LUSTRE_COMP_MIRROR_ID) = LE64(-1)
       /\ Held.comps[LUSTRE_COMP_NUM_INDICES * WordBytes + 1] = 0
       /\ Held.ost_ids = StreamWords(V1FixedSize, LoopCount(StreamWord(6)))
       /\ pos = last.pos0 + V1FixedSize + LoopCount(StreamWord(6)) * WordBytes

\* a version 1 record of two OST ids, written in the other byte order, decoded
LegacyUpgradeSeen ==
    /\ V1Decodable /\ fd.swap /\ last.bufp0 = NULL
    /\ StreamWord(6) = LE64(2) /\ StreamWord(3) = LE64(8)
    /\ last.ret = 1 /\ Len(Held.ost_ids) = 2 * WordBytes

\* the components and the OST ids of the record at the last call's start, as
\* the stream holds them, in host byte order
StreamShape ==
    LET n == LoopCount(StreamWord(2))
        fits == n <= (StreamLeft - FixedSize) \div CompSize
        raw == SubSeq(fd.region, last.pos0 + FixedSize + 1,
                      last.pos0 + FixedSize + n * CompSize)
        comps == IF ~fits THEN <<>> ELSE IF fd.swap THEN SwapCompSeq(raw) ELSE raw
        num == ViewNumOsts(comps)
        held == fits /\ num >= 0
                /\ num <= (StreamLeft - FixedSize - n * CompSize) \div WordBytes
    IN  [whole |-> held, comps |-> comps, num |-> num,
         ost_ids |-> IF held THEN StreamWords(FixedSize + n * CompSize, num) ELSE <<>>]

\* C6: a current-format call that returns success leaves a record of exactly
\* num_comps components and num_osts OST ids copied in stream order, num_osts
\* the sum of the decoded stripe counts, and has consumed 8 * num_osts bytes
\* of ids after the header and the components.
SuccessShape ==
    (last.op = "get" /\ fd.ver = DARSHAN_LUSTRE_VER /\ last.ret > 0 /\ bufp # NULL)
    => /\ StreamShape.whole
       /\ Held.num_comps = StreamWord(2)
       /\ Held.comps = StreamShape.comps
       /\ Held.ost_ids = StreamShape.ost_ids
       /\ Len(Held.ost_ids) = WordBytes * ViewNumOsts(Held.comps)
       /\ pos = last.pos0 + FixedSize + Len(Held.comps) + WordBytes * StreamShape.num

\* C7: a call on a current-format log with the byte-order flag set ends as
\* the same call does with the flag cleared on the log whose integers are all
\* byte-reversed: same return value, same cursor, same record.
SwapEquivalence ==
    (last.op = "get" /\ fd.ver = DARSHAN_LUSTRE_VER /\ fd.swap
        /\ last.pos0 = 0 /\ Served)
    => LET r == GetLustreRecord([fd EXCEPT !.swap = FALSE,
                                          !.region = Counterpart(fd.region)],
                                0, last.bufp0, last.heap0, junk, last.nd)
       IN  /\ r.ret = last.ret
           /\ r.pos = pos
           /\ r.bufp = bufp
           /\ (bufp # NULL /\ last.ret > 0)
                 => RecView(r.heap[r.bufp].mem, r.bufp, junk) = Held

\* C8: put_record calls the writer once, for the LUSTRE module, with the
\* current version and the length 24 + 72 * num_comps + 8 * (sum of the
\* stripe counts of the record's components): 24 when num_comps is 0.
WriteLength ==
    last.op = "put" =>
       LET n == LoopCount(Held.num_comps)
       IN  /\ out.mod = "LUSTRE"
           /\ out.ver = DARSHAN_LUSTRE_VER
           /\ out.len = FixedSize + n * CompSize + WordBytes * ViewNumOsts(Held.comps)
           /\ Len(out.data) = out.len
           /\ n = 0 => out.len = FixedSize

\* a record of two components with OST ids on both was written
WriteLengthSeen ==
    /\ last.op = "put" /\ last.arg = 1 /\ FullReads
    /\ Held.num_comps = LE64(2)
    /\ Counter(Held.comps, 0, LUSTRE_COMP_STRIPE_COUNT) = LE64(1)
    /\ Counter(Held.comps, 1, LUSTRE_COMP_STRIPE_COUNT) = LE64(2)
    /\ out.len = FixedSize + 2 * CompSize + 3 * WordBytes

\* C9, as stated: the version tag put_record of the STDIO codec hands to the
\* writer is the value of its argument ver.
PutAtRequestedVersion ==
    last.op = "put_stdio" => out.ver = last.arg

\* C9, amended: the version tag put_record hands to the writer is the
\* codec's current format version, whatever version the caller asks for.
PutAtCurrentVersion ==
    /\ last.op = "put_stdio" => (out.mod = "STDIO" /\ out.ver = DARSHAN_STDIO_VER)
    /\ last.op = "put" => (out.mod = "LUSTRE" /\ out.ver = DARSHAN_LUSTRE_VER)

\* a STDIO record was written for a caller that asked for an older version
PutVersionSeen ==
    /\ last.op = "put_stdio" /\ last.arg = 1
    /\ out.ver = DARSHAN_STDIO_VER /\ Len(out.data) = StdioRecSize

\* the call read nothing, allocated nothing and left the cursor, the caller's
\* pointer and every buffer as they were
Untouched ==
    /\ last.reads = <<>> /\ last.allocs = <<>>
    /\ pos = last.pos0 /\ bufp = last.bufp0 /\ heap = last.heap0

\* C10: get_record returns 0 when the module's region is empty, whatever the
\* version, and a negative code when the region is not empty and the version
\* is 0 or above the current one; in both cases it reads nothing, allocates
\* nothing and leaves the caller's pointer and buffer as they were.
AbsentOrGated ==
    last.op = "get" =>
       /\ Len(fd.region) = 0 => (last.ret = 0 /\ Untouched)
       /\ (Len(fd.region) # 0 /\ (fd.ver = 0 \/ fd.ver > DARSHAN_LUSTRE_VER))
             => (last.ret < 0 /\ Untouched)

\* a log of a newer version was refused with the caller's buffer in place
AbsentOrGatedSeen ==
    /\ last.op = "get" /\ fd.ver > DARSHAN_LUSTRE_VER /\ Len(fd.region) # 0
    /\ last.bufp0 # NULL /\ last.ret = -1 /\ heap[bufp].live

\* the stdio call had a buffer to read into: the caller's, or one malloc gave
StdioServed ==
    /\ last.op = "get_stdio" /\ Len(fd.region) # 0
    /\ last.bufp0 = NULL => (last.nd # "malloc" /\ FreeAddrs(last.heap0) # {})

\* C11: get_record of the STDIO codec returns 0 without a read on an empty
\* region; otherwise it issues one read of sizeof(struct darshan_stdio_file)
\* bytes and returns 1 exactly when the read was full, 0 when it was short,
\* -1 when it failed.  After 1 on a null pointer the caller holds the record,
\* every value byte-reversed if and only if the flag is set; after 0 or -1
\* the buffer of the call is freed and the pointer stays null.
StdioOutcome ==
    /\ (last.op = "get_stdio" /\ Len(fd.region) = 0)
          => (last.ret = 0 /\ last.reads = <<>> /\ bufp = last.bufp0)
    /\ StdioServed =>
          /\ Len(last.reads) = 1
          /\ last.reads[1].len = StdioRecSize
          /\ (last.ret = 1) = (last.reads[1].ret = StdioRecSize)
          /\ (last.ret = 0) = (last.reads[1].ret >= 0 /\ last.reads[1].ret < StdioRecSize)
          /\ (last.ret = -1) = (last.reads[1].ret < 0)
          /\ last.ret = 1 =>
                /\ bufp # NULL /\ heap[bufp].live
                /\ Load(heap[bufp].mem, 0, StdioRecSize, junk) = StreamWords(0, StdioWords)
          /\ (last.ret # 1 /\ last.bufp0 = NULL) => (bufp = NULL /\ NewBlocks = {})

\* a STDIO record written in the other byte order was read into a buffer of
\* the call
StdioOutcomeSeen ==
    /\ StdioServed /\ fd.swap /\ last.bufp0 = NULL /\ last.ret = 1
    /\ LoadWord(heap[bufp].mem, 0, junk) = LE64(2)

(***************************************************************************)
(* darshan_log_print_lustre_record.  A printed line is a record: the name  *)
(* of the counter (the index j of a component counter, or a string), the   *)
(* component label i+1 and the OST index in the name, and the value: an    *)
(* int64_t (d), a string as its characters (s) or as its bytes (pool).     *)
(***************************************************************************)
\* sizeof(flag_str)
FlagBufSize == 64
\* the number of rows of flag_str_table
NumFlags == 12

\* lines 308-321
flag_str_table ==
    <<<<"s", "t", "a", "l", "e", ",">>,
      <<"p", "r", "e", "f", "r", "d", ",">>,
      <<"p", "r", "e", "f", "w", "r", ",">>,
      <<"o", "f", "f", "l", "i", "n", "e", ",">>,
      <<"i", "n", "i", "t", ",">>,
      <<"n", "o", "s", "y", "n", "c", ",">>,
      <<"e", "x", "t", "e", "n", "s", "i", "o", "n", ",">>,
      <<"p", "a", "r", "i", "t", "y", ",">>,
      <<"c", "o", "m", "p", "r", "e", "s", "s", ",">>,
      <<"p", "a", "r", "t", "i", "a", "l", ",">>,
      <<"n", "o", "c", "o", "m", "p", "r", ",">>,
      <<"n", "e", "g", ",">>>>

\* flags & flag, flag = 1 << k, on the 8 bytes of the counter
BitSet(w, k) == (w[(k \div 8) + 1] \div (2 ^ (k % 8))) % 2 = 1

\* flags == -1
AllOnes(w) == \A b \in 1..WordBytes : w[b] = 255

\* strncat(flag_str, src, 64 - strlen(flag_str)) on the zero-filled buffer
\* that holds the string fs.str: at most 64 - strlen characters of src are
\* appended, then a terminating null byte; oob tells that a byte was
\* written at an index of 64 or more
Strncat(fs, src) ==
    [str |-> fs.str \o SubSeq(src, 1, Min(FlagBufSize - Len(fs.str), Len(src))),
     oob |-> fs.oob \/ Len(fs.str) + Min(FlagBufSize - Len(fs.str), Len(src)) >= FlagBufSize]

\* lines 324-329: the loop over the rows of the table, from row k on
RECURSIVE FlagLoop(_, _, _)
FlagLoop(w, k, fs) ==
    IF k = NumFlags THEN fs
    ELSE FlagLoop(w, k + 1, IF BitSet(w, k) THEN Strncat(fs, flag_str_table[k + 1]) ELSE fs)

\* lines 331-333: the last separator dropped, "0" and "N/A"
FlagFinish(w, fs) ==
    [str |-> IF AllOnes(w) THEN <<"N", "/", "A">>
             ELSE IF Len(fs.str) = 0 THEN <<"0">>
             ELSE SubSeq(fs.str, 1, Len(fs.str) - 1),
     oob |-> fs.oob]

\* lines 322-333: flag_str for the flags counter w, where the byte written
\* past the buffer lands in the memory after it and reads back
FlagStr(w) == FlagFinish(w, FlagLoop(w, 0, [str |-> <<>>, oob |-> FALSE]))

\* lines 291-300
PatternStr(w) ==
    IF w = LE64(0) THEN <<"r", "a", "i", "d", "0">>
    ELSE IF w = LE64(2) THEN <<"m", "d", "t">>
    ELSE IF w = LE64(4) THEN <<"r", "a", "i", "d", "0", ",", "o", "v", "e", "r", "s", "t", "r", "i", "p", "e", "d">>
    ELSE IF w = LE64(8) THEN <<"f", "o", "r", "e", "i", "g", "n">>
    ELSE <<"N", "/", "A">>

\* lustre_comp_counter_names, the names of LUSTRE_COMP_COUNTERS in order
lustre_comp_counter_names ==
    <<"LUSTRE_COMP_STRIPE_SIZE", "LUSTRE_COMP_STRIPE_COUNT",
      "LUSTRE_COMP_STRIPE_PATTERN", "LUSTRE_COMP_FLAGS", "LUSTRE_COMP_EXT_START",
      "LUSTRE_COMP_EXT_END", "LUSTRE_COMP_MIRROR_ID">>

Line(name, comp, ost, d, s, pool, oob) ==
    [name |-> name, comp |-> comp, ost |-> ost, d |-> d, s |-> s, pool |-> pool,
     oob |-> oob]

\* lines 282-343: the line of counter j of component i
CounterLine(comps, i, j) ==
    IF j = LUSTRE_COMP_STRIPE_PATTERN
    THEN Line(lustre_comp_counter_names[j + 1], i + 1, -1, <<>>,
              PatternStr(Counter(comps, i, j)), <<>>, FALSE)
    ELSE IF j = LUSTRE_COMP_FLAGS
    THEN Line(lustre_comp_counter_names[j + 1], i + 1, -1, <<>>,
              FlagStr(Counter(comps, i, j)).str, <<>>, FlagStr(Counter(comps, i, j)).oob)
    ELSE Line(lustre_comp_counter_names[j + 1], i + 1, -1, Counter(comps, i, j),
              <<>>, <<>>, FALSE)

\* the string at pool_name: its bytes up to the first null byte
RECURSIVE CString(_)
CString(b) == IF Len(b) = 0 \/ Head(b) = 0 THEN <<>> ELSE <<Head(b)>> \o CString(Tail(b))

\* lines 345-351
PoolLine(comps, i) ==
    IF comps[i * CompSize + LUSTRE_COMP_NUM_INDICES * WordBytes + 1] = 0
    THEN Line("POOL_NAME", i + 1, -1, <<>>, <<"N", "/", "A">>, <<>>, FALSE)
    ELSE Line("POOL_NAME", i + 1, -1, <<>>, <<>>,
              CString(SubSeq(comps, i * CompSize + LUSTRE_COMP_NUM_INDICES * WordBytes + 1,
                             (i + 1) * CompSize)), FALSE)

\* lines 352-359: the OST ids of component i, the cursor global_ost_idx at g
OstLines(view, i, g) ==
    <<>> \o [j \in 1..LoopCount(Counter(view.comps, i, LUSTRE_COMP_STRIPE_COUNT)) |->
                Line("OST_ID", i + 1, j - 1,
                     SubSeq(view.ost_ids, (g + j - 1) * WordBytes + 1, (g + j) * WordBytes),
                     <<>>, <<>>, FALSE)]

\* lines 280-360: the lines of the components i..n-1
RECURSIVE PrintComps(_, _, _, _)
PrintComps(view, i, n, g) ==
    IF i >= n THEN <<>>
    ELSE (<<>> \o [j \in 1..LUSTRE_COMP_NUM_INDICES |-> CounterLine(view.comps, i, j - 1)])
         \o <<PoolLine(view.comps, i)>>
         \o OstLines(view, i, g)
         \o PrintComps(view, i + 1, n,
                       g + LoopCount(Counter(view.comps, i, LUSTRE_COMP_STRIPE_COUNT)))

\* the lines before the first one whose flag_str was written out of bounds
RECURSIVE Sound(_)
Sound(lines) ==
    IF Len(lines) = 0 \/ Head(lines).oob THEN <<>>
    ELSE <<Head(lines)>> \o Sound(Tail(lines))

\* darshan_log_print_lustre_record (lines 266-363) on the record seen as
\* view.  A write past flag_str is undefined: with ub = "lands" the byte
\* lands after the buffer and the function goes on, with ub = "abort" the
\* run ends there (a build that checks the bounds of strncat).
PrintAll(view) ==
    <<Line("NUM_COMPONENTS", 0, -1, view.num_comps, <<>>, <<>>, FALSE)>>
    \o PrintComps(view, 0, LoopCount(view.num_comps), 0)

PrintLustreRecord(view, ub) ==
    IF ub = "lands" \/ Sound(PrintAll(view)) = PrintAll(view)
    THEN [mod |-> "PRINT", lines |-> PrintAll(view), ended |-> TRUE]
    ELSE [mod |-> "PRINT", lines |-> Sound(PrintAll(view)), ended |-> FALSE]

(***************************************************************************)
(* The printer: logs of one whole current-format record, read by           *)
(* get_record and then printed.                                            *)
(***************************************************************************)
MaxPrintComps == 3
PrintStripeCounts == {0, 2, 3}
\* the values of the flags counter: the sentinel, single bits, several
\* bits, all twelve, and bits above the twelfth
FlagValues == {-1, 0, 1, 2, 5, 16, 255, 511, 1365, 2048, 3584, 4095, 4096, 4101}

PrintCompBytes(i, sc, f, swap) ==
    EncWord(65536 * i, swap) \o EncWord(sc, swap) \o EncWord(2 * (i - 1), swap)
    \o EncWord(f, swap) \o EncWord(1024 * (i - 1), swap)
    \o EncWord(1024 * i, swap) \o EncWord(i, swap) \o PoolName(i)

PrintRecordBytes(id, rank, scs, f, first, swap) ==
    EncWord(id, swap) \o EncWord(rank, swap) \o EncWord(Len(scs), swap)
    \o Flatten([i \in 1..Len(scs) |-> PrintCompBytes(i, scs[i], f, swap)])
    \o Flatten([k \in 1..SeqSum(scs) |-> EncWord(first + k, swap)])

PrintShapes == UNION {[1..n -> PrintStripeCounts] : n \in 0..MaxPrintComps}

PrintRegions ==
    {PrintRecordBytes(258, 3, scs, f, 100, FALSE) : scs \in PrintShapes, f \in FlagValues}

InitPrint ==
    /\ \E region \in PrintRegions :
         fd = [ver |-> DARSHAN_LUSTRE_VER, swap |-> FALSE, region |-> region]
    /\ pos = 0
    /\ heap = [a \in AddrIds |-> FreeBlock]
    /\ bufp = NULL
    /\ junk \in JunkBytes
    /\ calls = 0
    /\ done = FALSE
    /\ last = NoCall
    /\ out = NoWrite

\* one call of lustre_logutils.log_print_record on the record just decoded;
\* last keeps the description of the get_record call that decoded it
PrintRecord ==
    /\ bufp # NULL
    /\ last.op = "get" /\ last.ret = 1
    /\ out.mod = ""
    /\ \E ub \in {"lands", "abort"} : out' = PrintLustreRecord(Held, ub)
    /\ last' = [last EXCEPT !.op = "print", !.arg = last.ret]
    /\ UNCHANGED <<fd, pos, heap, bufp, junk, calls, done>>

NextPrint == GetRecord \/ PrintRecord \/ Release

SpecPrint == InitPrint /\ [][NextPrint]_vars

\* the labels of the bits k..11 set in w, each followed by a comma
RECURSIVE Labels(_, _)
Labels(w, k) ==
    IF k = NumFlags THEN <<>>
    ELSE (IF BitSet(w, k) THEN flag_str_table[k + 1] ELSE <<>>) \o Labels(w, k + 1)

\* the string the flags value w is to print as
FlagText(w) ==
    IF AllOnes(w) THEN <<"N", "/", "A">>
    ELSE IF Labels(w, 0) = <<>> THEN <<"0">>
    ELSE SubSeq(Labels(w, 0), 1, Len(Labels(w, 0)) - 1)

\* the printed lines of the flags counters
FlagLines == {k \in 1..Len(out.lines) : out.lines[k].name = "LUSTRE_COMP_FLAGS"}

\* C12: print_record renders every flags value as "N/A" (-1), "0" (no bit
\* set) or the labels of its set bits among bits 0..11 in table order,
\* joined by commas, none truncated or dropped, and building the string
\* never writes beyond the 64-byte flag buffer.
FlagRendering ==
    last.op = "print" =>
        /\ out.ended
        /\ Len(out.lines) = 1 + (LUSTRE_COMP_NUM_INDICES + 1) * (Len(Held.comps) \div CompSize)
                              + Len(Held.ost_ids) \div WordBytes
        /\ \A k \in FlagLines :
              /\ ~out.lines[k].oob
              /\ out.lines[k].s = FlagText(Counter(Held.comps, out.lines[k].comp - 1,
                                                   LUSTRE_COMP_FLAGS))

(***************************************************************************)
(* Iteration: logs whose region is a sequence of whole current-format      *)
(* records, read one after the other, each call with a null pointer.       *)
(***************************************************************************)
MaxIterRecords == 2
IterShapes == {<<1>>, <<0, 2>>, <<2, 1>>}

\* the regions of k records
RECURSIVE IterRegionsOf(_, _)
IterRegionsOf(k, swap) ==
    IF k = 0 THEN {<<>>}
    ELSE {r \o RecordBytes(258 * k, k - 2, scs, 100 * k, swap) :
             r \in IterRegionsOf(k - 1, swap), scs \in IterShapes}

InitIter ==
    /\ \E swap \in BOOLEAN, k \in 0..MaxIterRecords :
         \E region \in IterRegionsOf(k, swap) :
            fd = [ver |-> DARSHAN_LUSTRE_VER, swap |-> swap, region |-> region]
    /\ pos = 0
    /\ heap = [a \in AddrIds |-> FreeBlock]
    /\ bufp = NULL
    /\ junk \in JunkBytes
    /\ calls = 0
    /\ done = FALSE
    /\ last = NoCall
    /\ out = NoWrite

\* one call of lustre_logutils.log_get_record with a null pointer, the
\* reader and the allocator without a fault (realloc may move the record)
IterGet ==
    /\ calls <= MaxIterRecords /\ ~done
    /\ bufp = NULL
    /\ \E nd \in {"none", "move"} :
         Returned(nd, GetLustreRecord(fd, pos, bufp, heap, junk, nd))
    /\ calls' = calls + 1
    /\ UNCHANGED <<fd, junk, out>>

NextIter == IterGet \/ Release

SpecIter == InitIter /\ [][NextIter]_vars

\* the int64_t at offset off of the region, in host byte order
WordAt(off) ==
    IF fd.swap THEN Bswap64(SubSeq(fd.region, off + 1, off + WordBytes))
    ELSE SubSeq(fd.region, off + 1, off + WordBytes)

\* the stripe counts of the components i..n-1 of the record at off, summed
RECURSIVE StripesAt(_, _, _)
StripesAt(off, i, n) ==
    IF i >= n THEN 0
    ELSE Low32(WordAt(off + FixedSize + i * CompSize
                      + LUSTRE_COMP_STRIPE_COUNT * WordBytes))
         + StripesAt(off, i + 1, n)

\* the bytes of the record that starts at off: header, components, OST ids
RecordLen(off) ==
    FixedSize + CompSize * Low32(WordAt(off + OffNumComps))
    + WordBytes * StripesAt(off, 0, Low32(WordAt(off + OffNumComps)))

\* where record i of the region starts (record 1 at 0)
RECURSIVE RecordStart(_)
RecordStart(i) ==
    IF i <= 1 THEN 0 ELSE RecordStart(i - 1) + RecordLen(RecordStart(i - 1))

\* the number of records of the region from off on
RECURSIVE RecordsFrom(_)
RecordsFrom(off) ==
    IF off >= Len(fd.region) THEN 0 ELSE 1 + RecordsFrom(off + RecordLen(off))

\* C13: on a region of k whole current-format records, each of one component
\* or more, successive get_record calls with a null pointer return 1 for
\* records 1..k in order, call i starting at record i, delivering it and
\* leaving the cursor at record i+1; call k+1 returns 0 and is the first
\* call that does not return success.
IterationOrder ==
    (last.op = "get" /\ fd.ver = DARSHAN_LUSTRE_VER) =>
        /\ calls <= RecordsFrom(0) + 1
        /\ last.pos0 = RecordStart(calls)
        /\ calls <= RecordsFrom(0) =>
              /\ last.ret = 1 /\ ~done
              /\ bufp # NULL /\ heap[bufp].live
              /\ Held.id = WordAt(RecordStart(calls))
              /\ Held.rank = WordAt(RecordStart(calls) + WordBytes)
              /\ Held.num_comps = WordAt(RecordStart(calls) + OffNumComps)
              /\ Held.comps = StreamShape.comps
              /\ Held.ost_ids = StreamShape.ost_ids
              /\ Len(Held.comps) + Len(Held.ost_ids) + FixedSize = RecordLen(last.pos0)
              /\ pos = RecordStart(calls + 1)
        /\ calls = RecordsFrom(0) + 1 =>
              /\ last.ret = 0 /\ done
              /\ bufp = NULL /\ NewBlocks = {}
              /\ pos = Len(fd.region)

\* the third call on a region of two records found no more data
IterationOrderSeen ==
    /\ last.op = "get" /\ calls = 3 /\ RecordsFrom(0) = 2
    /\ last.ret = 0 /\ last.pos0 = Len(fd.region)
    /\ RecordLen(0) < last.pos0

\* the printed lines of the OST ids, in the order printed
OstPrinted == SelectSeq(out.lines, LAMBDA l : l.name = "OST_ID")

\* the stripe count of component c of the record held, and the sum of the
\* stripe counts of the components before it
StripeCountOf(c) == Low32(Counter(Held.comps, c, LUSTRE_COMP_STRIPE_COUNT))
StripesBefore(c) == ViewNumOsts(SubSeq(Held.comps, 1, c * CompSize))

\* element g of the OST ids of the record held
OstId(g) == SubSeq(Held.ost_ids, g * WordBytes + 1, (g + 1) * WordBytes)

\* C14: print_record prints every OST id of the record exactly once, in
\* array order; the id printed for component c (label c+1) at index j is
\* element (stripe counts of components 0..c-1, summed) + j of the array,
\* with j below the stripe count of c, so that a component of stripe count 0
\* prints none and leaves the cursor where it was.
OstMapping ==
    last.op = "print" =>
        /\ Len(OstPrinted) = Len(Held.ost_ids) \div WordBytes
        /\ \A g \in 1..Len(OstPrinted) : OstPrinted[g].d = OstId(g - 1)
        /\ \A k \in 1..Len(out.lines) :
              out.lines[k].name = "OST_ID" =>
                 /\ out.lines[k].ost >= 0
                 /\ out.lines[k].ost < StripeCountOf(out.lines[k].comp - 1)
                 /\ out.lines[k].d = OstId(StripesBefore(out.lines[k].comp - 1)
                                           + out.lines[k].ost)
        /\ \A c \in 0..((Len(Held.comps) \div CompSize) - 1) :
              Len(SelectSeq(OstPrinted, LAMBDA l : l.comp = c + 1)) = StripeCountOf(c)

(***************************************************************************)
(* Hostile logs: records whose num_comps and stripe counts are any int64_t *)
(* the stream can carry, read with a null pointer.                         *)
(***************************************************************************)
\* 2^32 + 1, an int64_t whose low 32 bits are 1
Wide == <<1, 0, 0, 0, 1, 0, 0, 0>>
\* num_comps: negative, one, and 59652324 (72 * 59652324 = 2^32 + 32)
HostileComps == {LE64(-1), LE64(1), LE64(59652324)}
\* stripe counts: negative, two, 2^32 + 1 and 2^28 (8 * 2^28 = 2^31)
HostileStripes == {LE64(-1), LE64(2), Wide, LE64(268435456)}
V1HostileStripes == {LE64(-1), LE64(-10), LE64(2)}

\* the int64_t of bytes w as the writing host stored it
EncBytes(w, swap) == IF swap THEN Bswap64(w) ELSE w

\* a current-format header of num_comps nw, one component of stripe count
\* scw, and two OST ids
HostileRecord(nw, scw, swap) ==
    EncWord(258, swap) \o EncWord(3, swap) \o EncBytes(nw, swap)
    \o EncWord(65536, swap) \o EncBytes(scw, swap)
    \o Flatten([j \in 1..(LUSTRE_COMP_NUM_INDICES - 2) |-> EncWord(j, swap)])
    \o PoolName(1)
    \o EncWord(101, swap) \o EncWord(102, swap)

\* a version 1 record of stripe count scw, and two OST ids
V1HostileRecord(scw, swap) ==
    EncWord(258, swap) \o EncWord(3, swap) \o EncWord(0, swap) \o EncWord(1, swap)
    \o EncWord(2, swap) \o EncWord(65536, swap) \o EncBytes(scw, swap)
    \o EncWord(101, swap) \o EncWord(102, swap)

HostileRegions(ver, swap) ==
    IF ver = 1 THEN {V1HostileRecord(scw, swap) : scw \in V1HostileStripes}
    ELSE {HostileRecord(nw, scw, swap) : nw \in HostileComps, scw \in HostileStripes}

InitHostile ==
    /\ \E ver \in {1, DARSHAN_LUSTRE_VER}, swap \in BOOLEAN :
         \E region \in HostileRegions(ver, swap) :
            fd = [ver |-> ver, swap |-> swap, region |-> region]
    /\ pos = 0
    /\ heap = [a \in AddrIds |-> FreeBlock]
    /\ bufp = NULL
    /\ junk \in JunkBytes
    /\ calls = 0
    /\ done = FALSE
    /\ last = NoCall
    /\ out = NoWrite

NextHostile == GetRecord \/ Release

SpecHostile == InitHostile /\ [][NextHostile]_vars

\* len is the product of the int64_t w and size, and is not negative
ExactBytes(len, w, size) == len >= 0 /\ len % size = 0 /\ LE64(len \div size) = w

\* the header of the last call was read whole
HeaderWhole(size) == Len(last.reads) >= 1 /\ last.reads[1].ret = size

\* the lengths of a current-format call: comps_size in malloc and in the
\* component read; osts_size of a record of one component in realloc and in
\* the OST list read
CurrentLengths ==
    /\ Len(last.allocs) >= 1 =>
          ExactBytes(last.allocs[1] - RecStructSize, StreamWord(2), CompSize)
    /\ Len(last.reads) >= 2 => ExactBytes(last.reads[2].len, StreamWord(2), CompSize)
    /\ (Len(last.reads) >= 2 /\ last.reads[2].ret = CompSize /\ Len(last.allocs) >= 2) =>
          ExactBytes(last.allocs[2] - RecStructSize - CompSize,
                     StreamWord(3 + LUSTRE_COMP_STRIPE_COUNT), WordBytes)
    /\ (Len(last.reads) >= 3 /\ last.reads[2].ret = CompSize) =>
          ExactBytes(last.reads[3].len, StreamWord(3 + LUSTRE_COMP_STRIPE_COUNT), WordBytes)

\* the lengths of a version 1 call: stripe_count * sizeof(OST_ID) in malloc
\* and in the OST list read
V1Lengths ==
    /\ Len(last.allocs) >= 1 =>
          ExactBytes(last.allocs[1] - RecStructSize - CompSize, StreamWord(6), WordBytes)
    /\ Len(last.reads) >= 2 => ExactBytes(last.reads[2].len, StreamWord(6), WordBytes)

\* C15: when get_record allocates the buffer itself, whatever num_comps and
\* stripe counts the stream carries, every length given to malloc, realloc
\* and the reader is non-negative and is the product it stands for, and the
\* bytes written into the record lie within the size of its block.
MemoryBounds ==
    (last.op = "get" /\ last.bufp0 = NULL) =>
        /\ (fd.ver = DARSHAN_LUSTRE_VER /\ HeaderWhole(FixedSize)) => CurrentLengths
        /\ (fd.ver = 1 /\ HeaderWhole(V1FixedSize)) => V1Lengths
        /\ \A a \in NewBlocks : Len(heap[a].mem) <= heap[a].size

====
